---- MODULE Spec2Model ----
(***************************************************************************)
(* Model of the pypattern boundary operators (src/pypattern/operators.py)  *)
(* and of LogicalEdge (src/pypattern/edge.py), and of the scripts built on *)
(* them: the dataset reload (src/design_params_reload.py) and the SVG path *)
(* splitting (src/svg_holes.py).                                           *)
(*                                                                         *)
(* Python objects are modelled by an explicit heap: a vertex is a mutable  *)
(* list [x, y] (a cell of vert), an edge is an object holding references   *)
(* to its start and end cells (a record of edge).  Sharing of a vertex     *)
(* between two edges is sharing of the cell id.  Python lists are TLA+     *)
(* sequences; Python indices are 0-based and converted by the Py*          *)
(* operators.  Coordinates are integers.                                   *)
(***************************************************************************)
EXTENDS Integers, Sequences, FiniteSets, TLC

VARIABLES
    vert,        \* heap of vertex cells: Seq(<<x, y>>)
    edge,        \* heap of LogicalEdge objects: Seq([start, end, length])
    panelEdges,  \* panel.edges: list of edge object ids
    interfaces,  \* panel.interfaces: list of edge ids (InterfaceInstance.edge)
    seq,         \* a chained edge sequence held by a caller (list of edge ids)
    calls,       \* number of calls made on the edges of seq
    last,        \* the last call: operation, arguments, outcome
    dataset,     \* the entries of the dataset folder, in listing order
    gen,         \* the run of the reload script: position, arguments, results
    svg,         \* the call of split_half_svg_paths: paths, outcome
    comps        \* the call of distribute_Y: component objects, copies

kernelVars == <<vert, edge, panelEdges, interfaces, seq, calls, last>>
scriptVars == <<dataset, gen, svg, comps>>
vars == <<vert, edge, panelEdges, interfaces, seq, calls, last,
          dataset, gen, svg, comps>>

\* no script has been started
NoGen ==
    [pc |-> "idle", filter_fails |-> FALSE, only_fails |-> FALSE,
     fail_types |-> {}, default_body |-> FALSE, names |-> <<>>, i |-> 0,
     built |-> <<>>, failed |-> <<>>, skipped |-> <<>>, interrupted |-> FALSE]
NoSvg == [pc |-> "idle", paths |-> <<>>, left |-> <<>>, right |-> <<>>]
NoComps == [pc |-> "idle", objs |-> <<>>, given |-> <<>>, n |-> 0, copies |-> <<>>]
NoScript ==
    /\ dataset = <<>>
    /\ gen = NoGen
    /\ svg = NoSvg
    /\ comps = NoComps

\* no edge object exists
NoKernel ==
    /\ vert = <<>>
    /\ edge = <<>>
    /\ panelEdges = <<>>
    /\ interfaces = <<>>
    /\ seq = <<>>
    /\ calls = 0
    /\ last = <<>>

\* ------------------------------------------------------------------ bounds

\* Largest number of edges a panel boundary may grow to.
MaxEdges == 5

\* Largest number of calls made on LogicalEdge objects in one behaviour.
MaxCalls == 3

\* ---------------------------------------------------------- Python lists

\* l[i] for a 0-based index i
PyGet(l, i) == l[i + 1]

\* l after l.pop(i), 0 <= i < len(l)
PyPop(l, i) == SubSeq(l, 1, i) \o SubSeq(l, i + 2, Len(l))

\* l after l.insert(i, x), i >= 0: an index past the end appends
PyInsert(l, i, x) ==
    IF i >= Len(l) THEN Append(l, x)
    ELSE SubSeq(l, 1, i) \o <<x>> \o SubSeq(l, i + 1, Len(l))

\* l after l.reverse()
PyReverse(l) == [i \in 1..Len(l) |-> l[Len(l) + 1 - i]]

\* the entries of l in order of first occurrence, each once
RECURSIVE Dedup(_)
Dedup(l) ==
    IF l = <<>> THEN <<>>
    ELSE LET front == Dedup(SubSeq(l, 1, Len(l) - 1))
             x == l[Len(l)]
         IN IF \E i \in 1..Len(front) : front[i] = x THEN front ELSE Append(front, x)

\* the position of x in a list that holds it once
IndexOf(l, x) == CHOOSE i \in 1..Len(l) : l[i] = x

\* ------------------------------------------------------------- vectors

VAdd(a, b) == <<a[1] + b[1], a[2] + b[2]>>
VSub(a, b) == <<a[1] - b[1], a[2] - b[2]>>
VMul(a, k) == <<a[1] * k, a[2] * k>>

\* numpy.linalg.norm of a 2-vector, represented by its square: the norm is
\* the non-negative root, so two norms are equal exactly when their squares are.
NormSq(a) == a[1] * a[1] + a[2] * a[2]

\* _dist(v1, v2) = norm(v2 - v1), as its square
DistSq(v1, v2) == NormSq(VSub(v2, v1))

Abs(n) == IF n < 0 THEN -n ELSE n

\* ---------------------------------------------------------------- heap

\* A heap value h is [vert |-> Seq(<<x,y>>), edge |-> Seq([start, end, length])]:
\* start and end are cell ids; length is <<>> while the object has no instance
\* attribute "length" (the name resolves to the method of the class) and <<v>>
\* once an instance attribute of that name holds the value v.
Heap == [vert |-> vert, edge |-> edge]

\* LogicalEdge(start, end): the new object keeps the references it is given
NewEdge(h, s, t) ==
    [h EXCEPT !.edge = Append(h.edge, [start |-> s, end |-> t, length |-> <<>>])]
\* the id of the object created last
LastEdge(h) == Len(h.edge)

\* coordinates of the start / end vertex of edge object e
StartOf(h, e) == h.vert[h.edge[e].start]
EndOf(h, e) == h.vert[h.edge[e].end]

\* flip with the two assignments made one after the other
FlipSequential(h, e) == [h EXCEPT !.edge[e].start = h.edge[e].end]

\* LogicalEdge.flip: the two references are swapped, no vertex is touched
flip(h, e) ==
    [h EXCEPT !.edge[e] = [@ EXCEPT !.start = h.edge[e].end, !.end = h.edge[e].start]]

RECURSIVE FlipAll(_, _)
FlipAll(h, s) == IF s = <<>> THEN h ELSE FlipAll(flip(h, Head(s)), Tail(s))

\* the list reversed, its edges not flipped
ReverseOrderOnly(h, s) == [h |-> h, seq |-> PyReverse(s)]

\* corner_shape.reverse(); for e in corner_shape: e.flip()
\* returns the heap and the list
ReverseShape(h, s) == [h |-> FlipAll(h, PyReverse(s)), seq |-> PyReverse(s)]

\* edges = []; for i in range(1, len(verts)): edges.append(LogicalEdge(verts[i-1], verts[i]))
\* on vertex lists pts allocated by the caller: consecutive edges share the cell
ChainEdges(h, pts) ==
    LET vb == Len(h.vert)
        eb == Len(h.edge)
        n == Len(pts) - 1
    IN [h |-> [vert |-> h.vert \o pts,
               edge |-> h.edge \o [i \in 1..n |->
                            [start |-> vb + i, end |-> vb + i + 1, length |-> <<>>]]],
        seq |-> [i \in 1..n |-> eb + i]]

\* a loop whose closing edge ends at a second [0,0] of its own
SimpleLoopFreshOrigin(h, pts) ==
    LET vb == Len(h.vert)
        eb == Len(h.edge)
        n == Len(pts)
        origin == vb + n + 1
    IN [h |-> [vert |-> h.vert \o pts \o << <<0, 0>>, <<0, 0>> >>,
               edge |-> h.edge \o [i \in 1..(n + 1) |->
                            [start |-> IF i = 1 THEN origin ELSE vb + i - 1,
                             end |-> IF i = n + 1 THEN origin + 1 ELSE vb + i,
                             length |-> <<>>]]],
        seq |-> [i \in 1..(n + 1) |-> eb + i]]

\* simple_loop(*verts): first edge from a new [0,0], each next edge from the
\* previous edge's end object, the closing edge back to the first start object
simple_loop(h, pts) ==
    LET vb == Len(h.vert)
        eb == Len(h.edge)
        n == Len(pts)
        origin == vb + n + 1
    IN [h |-> [vert |-> h.vert \o pts \o << <<0, 0>> >>,
               edge |-> h.edge \o [i \in 1..(n + 1) |->
                            [start |-> IF i = 1 THEN origin ELSE vb + i - 1,
                             end |-> IF i = n + 1 THEN origin ELSE vb + i,
                             length |-> <<>>]]],
        seq |-> [i \in 1..(n + 1) |-> eb + i]]

\* the cell ids the edges of s reference, in traversal order
RECURSIVE CellsOf(_, _)
CellsOf(h, s) ==
    IF s = <<>> THEN <<>>
    ELSE <<h.edge[Head(s)].start, h.edge[Head(s)].end>> \o CellsOf(h, Tail(s))

\* the list taken as it is, no object copied
NoCopy(h, s) == [h |-> h, seq |-> s]

\* copy.deepcopy of a list of edges: one memo for the whole list, so every
\* object (edge or vertex list) is copied once and sharing inside the list is kept
deepcopy(h, s) ==
    LET cells == Dedup(CellsOf(h, s))
        objs == Dedup(s)
        vb == Len(h.vert)
        eb == Len(h.edge)
    IN [h |-> [vert |-> h.vert \o [i \in 1..Len(cells) |-> h.vert[cells[i]]],
               edge |-> h.edge \o [i \in 1..Len(objs) |->
                            [start |-> vb + IndexOf(cells, h.edge[objs[i]].start),
                             end |-> vb + IndexOf(cells, h.edge[objs[i]].end),
                             length |-> h.edge[objs[i]].length]]],
        seq |-> [i \in 1..Len(s) |-> eb + IndexOf(objs, s[i])]]

\* [deepcopy(e) for e in edges]: one deepcopy call, hence one memo, per edge
RECURSIVE DeepCopyEach(_, _)
DeepCopyEach(h, s) ==
    IF s = <<>> THEN [h |-> h, seq |-> <<>>]
    ELSE LET c == deepcopy(h, <<Head(s)>>)
             r == DeepCopyEach(c.h, Tail(s))
         IN [h |-> r.h, seq |-> c.seq \o r.seq]

\* v[0] += d[0]; v[1] += d[1] on the cell c
AddTo(h, c, d) == [h EXCEPT !.vert[c] = VAdd(h.vert[c], d)]

RECURSIVE ShiftEnds(_, _, _)
ShiftEnds(h, s, shift) ==
    IF s = <<>> THEN h
    ELSE ShiftEnds(AddTo(h, h.edge[Head(s)].end, shift), Tail(s), shift)

\* _shift_edge_verts(edge_seq, shift)
shift_edge_verts(h, s, shift) ==
    ShiftEnds(AddTo(h, h.edge[s[1]].start, shift), s, shift)

\* one iteration of the loop of _scale_edges_from_start on the end cell c:
\* the second assignment reads e.end[0] after the first has written it, and
\* reads index 0 of v_start
ScaleEnd(h, c, vs, scale) ==
    LET h1 == [h EXCEPT !.vert[c][1] = scale * (h.vert[c][1] - h.vert[vs][1]) + h.vert[vs][1]]
    IN [h1 EXCEPT !.vert[c][2] = scale * (h1.vert[c][1] - h1.vert[vs][1]) + h1.vert[vs][1]]

RECURSIVE ScaleEnds(_, _, _, _)
ScaleEnds(h, s, vs, scale) ==
    IF s = <<>> THEN h
    ELSE ScaleEnds(ScaleEnd(h, h.edge[Head(s)].end, vs, scale), Tail(s), vs, scale)

\* _scale_edges_from_start(edge_seq, scale)
scale_edges_from_start(h, s, scale) == ScaleEnds(h, s, h.edge[s[1]].start, scale)

\* ------------------------------------------------------ scipy minimize

\* abs(out.fun) > 1e-3, with out.fun counted in units of 1e-3
Tol == 1

\* A result of scipy.optimize.minimize: [success, x, fun].  The optimizer is not
\* modelled; every result it may report is drawn from these sets.  x and fun of
\* a result that is not used are fixed.
Shifts == {<<0, 0>>, <<1, -1>>}
ScaleSteps == {<<0, 0>>, <<1, 0>>, <<0, 1>>}
FunValues == {0, 1, 2}
NoOut == [success |-> FALSE, x |-> <<0, 0>>, fun |-> 0]
TranslationOuts ==
    {NoOut} \cup {[success |-> TRUE, x |-> x, fun |-> f] : x \in Shifts, f \in FunValues}
ScaleOuts ==
    {NoOut} \cup {[success |-> TRUE, x |-> x, fun |-> 0] : x \in ScaleSteps}

\* the result of the fit accepted whatever it reports
RaisesNever(out) == FALSE

\* if not out.success: raise RuntimeError(...)
Raises(out) == ~out.success

\* the residual compared with >= instead of >
NeedsScaleAtTol(out) == Abs(out.fun) >= Tol

\* if abs(out.fun) > 1e-3
NeedsScale(out) == Abs(out.fun) > Tol

\* ------------------------------------------------------------ cut_corner

\* shifted[0] += (shifted[0] - shifted[1]) * out.x[0]
\* shifted[1] += (shifted[1] - shifted[0]) * out.x[1], reading the new shifted[0]
Rescaled(shifted, x) ==
    LET s0 == VAdd(shifted[1], VMul(VSub(shifted[1], shifted[2]), x[1]))
        s1 == VAdd(shifted[2], VMul(VSub(shifted[2], s0), x[2]))
    IN <<s0, s1>>

\* scale = _dist(shifted[0], shifted[1]) / _dist(shortcut[1], shortcut[0]):
\* the ratio of the two norms, found from their squares
ScaleOf(shifted, shortcut) ==
    CHOOSE s \in 0..DistSq(shifted[1], shifted[2]) :
        s * s * DistSq(shortcut[2], shortcut[1]) = DistSq(shifted[1], shifted[2])

\* every edge of the run inserted at the same index
RECURSIVE InsertRunSameIndex(_, _, _)
InsertRunSameIndex(l, at, run) ==
    IF run = <<>> THEN l
    ELSE InsertRunSameIndex(PyInsert(l, at, Head(run)), at, Tail(run))

\* for i, e in enumerate(corner_shape): panel.edges.insert(eid1 + i, e)
RECURSIVE InsertRun(_, _, _)
InsertRun(l, at, run) ==
    IF run = <<>> THEN l
    ELSE InsertRun(PyInsert(l, at, Head(run)), at + 1, Tail(run))

\* only the first corner edge popped
PopCornerOnce(l, eid1, eid2) == PyPop(l, eid1)

\* the two pops of the corner edges, the larger index first
PopCorner(l, eid1, eid2) ==
    IF eid2 > eid1 THEN PyPop(PyPop(l, eid2), eid1)
    ELSE PyPop(PyPop(l, eid1), eid2)

\* intr_ids: the 0-based indices of the interfaces whose edge is one of objs,
\* in increasing order
RECURSIVE IntrIds(_, _, _)
IntrIds(intf, objs, i) ==
    IF i >= Len(intf) THEN <<>>
    ELSE (IF PyGet(intf, i) \in objs THEN <<i>> ELSE <<>>) \o IntrIds(intf, objs, i + 1)

\* only the last of the found interfaces popped
PopLastId(intf, ids) == PyPop(intf, ids[Len(ids)])

\* for id in sorted(intr_ids, reverse=True): panel.interfaces.pop(id)
RECURSIVE PopIds(_, _)
PopIds(intf, ids) ==
    IF ids = <<>> THEN intf
    ELSE PopIds(PyPop(intf, ids[Len(ids)]), SubSeq(ids, 1, Len(ids) - 1))

\* the interface update of cut_corner
CutInterfaces(intf, edge1, edge2, run) ==
    LET ids == IntrIds(intf, {edge1, edge2}, 0)
    IN IF ids # <<>> THEN PopIds(intf, ids) \o run ELSE intf

\* swaped: v1[1] > v2[1] for v1 = edges[eid1].start, v2 = edges[eid2].end
Swaped(h, pe, eid1, eid2) ==
    StartOf(h, PyGet(pe, eid1))[2] > EndOf(h, PyGet(pe, eid2))[2]

\* corner_shape[0].start[1] > corner_shape[-1].end[1], c = [h, seq]
ShapeReversed(c) == StartOf(c.h, c.seq[1])[2] > EndOf(c.h, c.seq[Len(c.seq)])[2]

\* the copy reversed when its own end points are in the opposite y order
Orient(c) == IF ShapeReversed(c) THEN ReverseShape(c.h, c.seq) ELSE c

\* shortcut = np.array([corner_shape[0].start, corner_shape[-1].end])
Shortcut(c) == <<StartOf(c.h, c.seq[1]), EndOf(c.h, c.seq[Len(c.seq)])>>

\* shifted = shortcut + out.x
Shifted(shortcut, x) == <<VAdd(shortcut[1], x), VAdd(shortcut[2], x)>>

\* the scale fit was run: the translation converged and left a residual
RanScale(out1) == ~Raises(out1) /\ NeedsScale(out1)

\* the body of `if abs(out.fun) > 1e-3` after the fit converged: the shape is
\* moved by (shifted[0] - shifted[1]) * out.x[0], then scaled from its start
ScaleFit(h, s, shortcut, resc, x) ==
    scale_edges_from_start(
        shift_edge_verts(h, s, VMul(VSub(resc[1], resc[2]), x[1])),
        s, ScaleOf(resc, shortcut))

\* the heap after _shift_edge_verts(corner_shape, shift) and, when the
\* translation does not fit, the rescaling
Placed(c, shortcut, out1, out2) ==
    IF NeedsScale(out1)
    THEN ScaleFit(shift_edge_verts(c.h, c.seq, out1.x), c.seq, shortcut,
                  Rescaled(Shifted(shortcut, out1.x), out2.x), out2.x)
    ELSE shift_edge_verts(c.h, c.seq, out1.x)

\* if swaped: corner_shape.reverse(); for e in corner_shape: e.flip()
Unswap(h, s, swaped) == IF swaped THEN ReverseShape(h, s) ELSE [h |-> h, seq |-> s]

\* the fit of cut_corner on the oriented copy c: [status, h, seq]; a raise
\* leaves the heap as the statements before it made it
FitOriented(c, swaped, out1, out2) ==
    IF Raises(out1)
    THEN [status |-> "error", h |-> c.h, seq |-> <<>>]
    ELSE IF NeedsScale(out1) /\ Raises(out2)
    THEN [status |-> "error", h |-> shift_edge_verts(c.h, c.seq, out1.x), seq |-> <<>>]
    ELSE [status |-> "ok"] @@ Unswap(Placed(c, Shortcut(c), out1, out2), c.seq, swaped)

\* the fit of cut_corner: the copy of the target shape, oriented, shifted and,
\* when the translation does not fit, rescaled: [status, h, seq]
FitCorner(h, pe, target, eid1, eid2, out1, out2) ==
    FitOriented(Orient(deepcopy(h, target)), Swaped(h, pe, eid1, eid2), out1, out2)

\* corner_shape.insert(0, LogicalEdge(panel.edges[eid1].start, corner_shape[0].start))
\* corner_shape.append(LogicalEdge(corner_shape[-1].end, panel.edges[eid2].end))
\* the heap with the two connector edges, which are its last two objects
Connectors(h, s, edge1, edge2) ==
    NewEdge(NewEdge(h, h.edge[edge1].start, h.edge[s[1]].start),
            h.edge[s[Len(s)]].end, h.edge[edge2].end)

\* corner_shape once the connectors created in heap h are in it
CornerRun(h, s) == <<Len(h.edge) - 1>> \o s \o <<Len(h.edge)>>

\* panel.edges and panel.interfaces after the corner edges are replaced by the
\* run; h holds the connectors
SpliceRun(h, s, pe, intf, eid1, eid2, edge1, edge2) ==
    [status |-> "ok", h |-> h,
     edges |-> InsertRun(PopCorner(pe, eid1, eid2), eid1, CornerRun(h, s)),
     interfaces |-> CutInterfaces(intf, edge1, edge2, CornerRun(h, s)),
     run |-> CornerRun(h, s)]

\* the update of the panel by cut_corner once the fit f = [status, h, seq] is
\* there; a failed fit leaves through the raise, before any statement on the
\* panel: its lists are the ones of the call, the heap is the fit's
Splice(f, h0, pe, intf, eid1, eid2, edge1, edge2) ==
    IF f.status = "error"
    THEN [status |-> "error", h |-> f.h, edges |-> pe, interfaces |-> intf, run |-> <<>>]
    ELSE SpliceRun(Connectors(f.h, f.seq, edge1, edge2), f.seq, pe, intf,
                   eid1, eid2, edge1, edge2)

\* cut_corner(target_shape, panel, eid1, eid2) with the two minimize results
\* out1, out2: [status, h, edges, interfaces, run]
cut_corner(h, pe, intf, target, eid1, eid2, out1, out2) ==
    Splice(FitCorner(h, pe, target, eid1, eid2, out1, out2), h, pe, intf,
           eid1, eid2, PyGet(pe, eid1), PyGet(pe, eid2))

\* --------------------------------------------------------------- project

\* shift = [base_edge.start[0] - edges_copy[0].start[0],
\*          base_edge.start[0] - edges_copy[0].start[0]]
ProjectShift(baseStart, copyStart) ==
    <<baseStart[1] - copyStart[1], baseStart[1] - copyStart[1]>>

\* intr_id: the index the loop leaves, the last interface whose edge is base
\* (-1 for None)
LastIntrId(intf, base) ==
    LET ids == IntrIds(intf, {base}, 0)
    IN IF ids = <<>> THEN -1 ELSE ids[Len(ids)]

\* the interface update of project
ProjectInterfaces(intf, base, run) ==
    LET id == LastIntrId(intf, base)
    IN IF id # -1 THEN PyPop(intf, id) \o run ELSE intf

\* edges_copy[0].start = base_edge.start, then the loop over e.end, for the
\* copies c = [h, seq]; the shift is taken before the start is rebound
ProjectMoved(c, base) ==
    ShiftEnds([c.h EXCEPT !.edge[c.seq[1]].start = c.h.edge[base].start], c.seq,
              ProjectShift(StartOf(c.h, base), StartOf(c.h, c.seq[1])))

\* edges_copy.append(LogicalEdge(edges_copy[-1].end, base_edge.end))
ProjectConnector(h, s, base) == NewEdge(h, h.edge[s[Len(s)]].end, h.edge[base].end)

\* panel.edges and panel.interfaces after base is replaced by the copies and
\* the connector, the last object of h
ProjectSplice(h, s, pe, intf, base, edge_id) ==
    [h |-> h,
     edges |-> InsertRun(PyPop(pe, edge_id), edge_id, Append(s, LastEdge(h))),
     interfaces |-> ProjectInterfaces(intf, base, Append(s, LastEdge(h))),
     run |-> Append(s, LastEdge(h)), copy |-> s]

ProjectCopied(c, pe, intf, base, edge_id) ==
    ProjectSplice(ProjectConnector(ProjectMoved(c, base), c.seq, base), c.seq,
                  pe, intf, base, edge_id)

\* project(edges, panel, edge_id): [h, edges, interfaces, run, copy]
project(h, pe, intf, edges, edge_id) ==
    ProjectCopied(DeepCopyEach(h, edges), pe, intf, PyGet(pe, edge_id), edge_id)

\* ------------------------------------------------------- panel behaviours

\* each edge of s ends where the next one starts (by position)
Chained(h, s) == \A i \in 1..(Len(s) - 1) : EndOf(h, s[i]) = StartOf(h, s[i + 1])

\* s is chained and its last edge ends where its first edge starts
ClosedLoop(h, s) ==
    /\ s # <<>>
    /\ Chained(h, s)
    /\ EndOf(h, s[Len(s)]) = StartOf(h, s[1])

\* the sum of the directed edge vectors of s
RECURSIVE VecSum(_, _)
VecSum(h, s) ==
    IF s = <<>> THEN <<0, 0>>
    ELSE VAdd(VSub(EndOf(h, Head(s)), StartOf(h, Head(s))), VecSum(h, Tail(s)))

\* how many entries of the list l are x
Count(l, x) == Cardinality({i \in 1..Len(l) : l[i] = x})

Range(l) == {l[i] : i \in 1..Len(l)}

\* vertex lists handed to simple_loop to build the initial panel
PanelVerts == { << <<2, 0>>, <<0, 2>> >>, << <<2, 0>>, <<2, 2>>, <<0, 2>> >> }

\* vertex lists of the shapes handed to cut_corner and project
TargetShapes == { << <<0, 0>>, <<1, 1>> >>, << <<0, 1>>, <<1, 1>>, <<1, 0>> >> }

\* the interface lists of an initial panel with boundary pe: none, one, two on
\* different edges, two on the same edge with one on another edge between them
InitInterfaces(pe) ==
    {<<>>, <<pe[1]>>, <<pe[2], pe[Len(pe)]>>, <<pe[1], pe[2], pe[1]>>}

NoCall ==
    [op |-> "none", status |-> "ok", eid1 |-> 0, eid2 |-> 0, target |-> <<>>,
     preEdges |-> <<>>, preIntf |-> <<>>, run |-> <<>>, copy |-> <<>>,
     out1 |-> NoOut, out2 |-> NoOut, ran2 |-> FALSE, swaped |-> FALSE,
     reversed |-> FALSE, preClosed |-> FALSE,
     preHeap |-> [vert |-> <<>>, edge |-> <<>>]]

Init ==
    \E pts \in PanelVerts :
        LET p == simple_loop([vert |-> <<>>, edge |-> <<>>], pts)
        IN /\ vert = p.h.vert
           /\ edge = p.h.edge
           /\ panelEdges = p.seq
           /\ interfaces \in InitInterfaces(p.seq)
           /\ seq = <<>>
           /\ NoScript
           /\ calls = 0
           /\ last = NoCall

\* a failed fit ends the run: nothing is called after it
Running == last.status = "ok"

CutCornerCall ==
    /\ Running
    /\ \E pts \in {q \in TargetShapes : Len(panelEdges) + Len(q) - 1 <= MaxEdges},
          eid1 \in 0..(Len(panelEdges) - 1), out1 \in TranslationOuts :
         \E out2 \in IF RanScale(out1) THEN ScaleOuts ELSE {NoOut} :
         \E t \in {ChainEdges(Heap, pts)}, eid2 \in {(eid1 + 1) % Len(panelEdges)} :
         \E r \in {cut_corner(t.h, panelEdges, interfaces, t.seq, eid1, eid2, out1, out2)} :
              /\ vert' = r.h.vert
              /\ edge' = r.h.edge
              /\ panelEdges' = r.edges
              /\ interfaces' = r.interfaces
              /\ last' = [op |-> "cut_corner", status |-> r.status, eid1 |-> eid1,
                          eid2 |-> eid2, target |-> t.seq, preEdges |-> panelEdges,
                          preIntf |-> interfaces, run |-> r.run, copy |-> <<>>,
                          out1 |-> out1, out2 |-> out2, ran2 |-> RanScale(out1),
                          swaped |-> Swaped(Heap, panelEdges, eid1, eid2),
                          reversed |-> ShapeReversed(t),
                          preClosed |-> ClosedLoop(Heap, panelEdges),
                          preHeap |-> t.h]
              /\ UNCHANGED <<seq, calls, dataset, gen, svg, comps>>

ProjectCall ==
    /\ Running
    /\ \E pts \in {q \in TargetShapes : Len(panelEdges) + Len(q) - 1 <= MaxEdges},
          edge_id \in 0..(Len(panelEdges) - 1) :
         \E t \in {ChainEdges(Heap, pts)} :
         \E r \in {project(t.h, panelEdges, interfaces, t.seq, edge_id)} :
              /\ vert' = r.h.vert
              /\ edge' = r.h.edge
              /\ panelEdges' = r.edges
              /\ interfaces' = r.interfaces
              /\ last' = [op |-> "project", status |-> "ok", eid1 |-> edge_id,
                          eid2 |-> edge_id, target |-> t.seq, preEdges |-> panelEdges,
                          preIntf |-> interfaces, run |-> r.run, copy |-> r.copy,
                          out1 |-> NoOut, out2 |-> NoOut, ran2 |-> FALSE,
                          swaped |-> FALSE, reversed |-> FALSE,
                          preClosed |-> ClosedLoop(Heap, panelEdges),
                          preHeap |-> t.h]
              /\ UNCHANGED <<seq, calls, dataset, gen, svg, comps>>

Next == CutCornerCall \/ ProjectCall

Spec == Init /\ [][Next]_vars

\* -------------------------------------------------- LogicalEdge behaviours

\* What a call gives back: <<"None", 0>>, <<"bool", 0 or 1>>, <<"float", v>> for
\* a returned value, <<"TypeError", 0>> for a raised exception.
RetNone == <<"None", 0>>
RetTypeError == <<"TypeError", 0>>
RetBool(b) == <<"bool", IF b THEN 1 ELSE 0>>

\* LogicalEdge.length(): the call self.length() resolves the name "length" on
\* the object.  While it is the method, the body binds the instance attribute
\* "length" to the norm and falls off the end (None); once the attribute holds
\* a number, calling it raises TypeError.
length(h, e) ==
    IF h.edge[e].length = <<>>
    THEN [h |-> [h EXCEPT !.edge[e].length = <<NormSq(VSub(EndOf(h, e), StartOf(h, e)))>>],
          ret |-> RetNone]
    ELSE [h |-> h, ret |-> RetTypeError]

\* LogicalEdge.__eq__(self, __o) for an edge __o: self.length() is called
\* first, then __o.length(), and their results are compared with !=
EdgeEq(h, a, b) ==
    LET ra == length(h, a)
        rb == length(ra.h, b)
    IN IF ra.ret = RetTypeError THEN [h |-> ra.h, ret |-> RetTypeError]
       ELSE IF rb.ret = RetTypeError THEN [h |-> rb.h, ret |-> RetTypeError]
       ELSE [h |-> rb.h, ret |-> RetBool(~(ra.ret # rb.ret))]

\* LogicalEdge.__eq__(self, __o) for an __o that is no LogicalEdge
EdgeEqOther(h, a) == [h |-> h, ret |-> RetBool(FALSE)]

\* vertex lists of the chained sequences a caller holds: two edges of equal
\* length, two of different length
SeqVerts == { << <<0, 0>>, <<1, 0>>, <<1, 1>> >>, << <<0, 1>>, <<2, 1>>, <<2, 0>> >> }

\* the vectors a caller moves a vertex by, in place
Moves == {<<1, 0>>, <<0, -1>>}

\* the vertex positions along s: the start of the first edge, then every end
VertsAlong(h, s) ==
    IF s = <<>> THEN <<>>
    ELSE <<StartOf(h, s[1])>> \o [i \in 1..Len(s) |-> EndOf(h, s[i])]

EdgeCall(op, a, b, ret) ==
    [op |-> op, a |-> a, b |-> b, ret |-> ret,
     preVerts |-> VertsAlong(Heap, seq), preEdge |-> edge,
     preChained |-> Chained(Heap, seq),
     prev |-> [op |-> last.op, a |-> last.a, preVerts |-> last.preVerts,
               preEdge |-> last.preEdge]]

InitEdge ==
    \E pts \in SeqVerts :
        LET c == ChainEdges([vert |-> <<>>, edge |-> <<>>], pts)
        IN /\ vert = c.h.vert
           /\ edge = c.h.edge
           /\ seq = c.seq
           /\ panelEdges = <<>>
           /\ interfaces = <<>>
           /\ NoScript
           /\ calls = 0
           /\ last = [op |-> "none", a |-> 0, b |-> 0, ret |-> RetNone,
                      preVerts |-> <<>>, preEdge |-> <<>>, preChained |-> FALSE,
                      prev |-> [op |-> "none", a |-> 0, preVerts |-> <<>>,
                                preEdge |-> <<>>]]

MayCall == calls < MaxCalls

LengthCall ==
    /\ MayCall
    /\ \E a \in Range(seq) : \E r \in {length(Heap, a)} :
          /\ edge' = r.h.edge
          /\ last' = EdgeCall("length", a, a, r.ret)
    /\ calls' = calls + 1
    /\ UNCHANGED <<vert, seq, panelEdges, interfaces, dataset, gen, svg, comps>>

EqCall ==
    /\ MayCall
    /\ \E a \in Range(seq), b \in Range(seq) : \E r \in {EdgeEq(Heap, a, b)} :
          /\ edge' = r.h.edge
          /\ last' = EdgeCall("eq", a, b, r.ret)
    /\ calls' = calls + 1
    /\ UNCHANGED <<vert, seq, panelEdges, interfaces, dataset, gen, svg, comps>>

EqOtherCall ==
    /\ MayCall
    /\ \E a \in Range(seq) : \E r \in {EdgeEqOther(Heap, a)} :
          /\ edge' = r.h.edge
          /\ last' = EdgeCall("eq_other", a, 0, r.ret)
    /\ calls' = calls + 1
    /\ UNCHANGED <<vert, seq, panelEdges, interfaces, dataset, gen, svg, comps>>

FlipCall ==
    /\ MayCall
    /\ \E a \in Range(seq) :
          /\ edge' = flip(Heap, a).edge
          /\ last' = EdgeCall("flip", a, a, RetNone)
    /\ calls' = calls + 1
    /\ UNCHANGED <<vert, seq, panelEdges, interfaces, dataset, gen, svg, comps>>

ReverseCall ==
    /\ MayCall
    /\ \E r \in {ReverseShape(Heap, seq)} :
          /\ edge' = r.h.edge
          /\ seq' = r.seq
          /\ last' = EdgeCall("reverse", 0, 0, RetNone)
    /\ calls' = calls + 1
    /\ UNCHANGED <<vert, panelEdges, interfaces, dataset, gen, svg, comps>>

MoveVertex ==
    /\ MayCall
    /\ \E c \in 1..Len(vert), d \in Moves :
          /\ vert' = AddTo(Heap, c, d).vert
          /\ last' = EdgeCall("move", c, c, RetNone)
    /\ calls' = calls + 1
    /\ UNCHANGED <<edge, seq, panelEdges, interfaces, dataset, gen, svg, comps>>

NextEdge ==
    LengthCall \/ EqCall \/ EqOtherCall \/ FlipCall \/ ReverseCall \/ MoveVertex

SpecEdge == InitEdge /\ [][NextEdge]_vars

\* ----------------------------------------------------------------- claims

CutDone == last.op = "cut_corner" /\ last.status = "ok"
CutFailed == last.op = "cut_corner" /\ last.status = "error"
ProjectDone == last.op = "project"

\* the corner was the wrap-around one: eid1 the last index, eid2 = 0
Wrapped == last.eid2 = 0 /\ last.eid1 = Len(last.preEdges) - 1

\* the two edges the last cut_corner removed, the edge the last project replaced
Edge1 == PyGet(last.preEdges, last.eid1)
Edge2 == PyGet(last.preEdges, last.eid2)
BaseEdge == PyGet(last.preEdges, last.eid1)

\* C1: after a successful cut_corner on a closed chained panel, panel.edges is
\* again a closed chained loop and its directed edge vectors sum to zero.
C1_CutCornerKeepsLoopClosed ==
    (CutDone /\ last.preClosed) =>
        /\ ClosedLoop(Heap, panelEdges)
        /\ VecSum(Heap, panelEdges) = <<0, 0>>

\* a wrap-around corner cut with the y-order swap, the reversal of the shape
\* and the scale fit all taken
C1_Witness ==
    CutDone /\ last.preClosed /\ Wrapped /\ last.swaped /\ last.reversed /\ last.ran2

\* C2: after a successful cut_corner the panel has the original number of
\* edges minus 2 plus the inserted run, the target shape's edges and two connectors.
C2_CutCornerEdgeCount ==
    CutDone =>
        /\ Len(last.run) = Len(last.target) + 2
        /\ Len(panelEdges) = Len(last.preEdges) - 2 + Len(last.run)

\* a wrap-around corner cut with a shape of two edges
C2_Witness == CutDone /\ Wrapped /\ Len(last.target) = 2

\* C3: after project on a closed chained panel the boundary is a closed
\* chained loop: the first inserted edge starts at the replaced edge's start,
\* the inserted edges are chained, one connector closes to the replaced edge's end.
C3_ProjectKeepsLoopClosed ==
    (ProjectDone /\ last.preClosed) =>
        /\ StartOf(Heap, last.run[1]) = StartOf(Heap, BaseEdge)
        /\ Chained(Heap, last.run)
        /\ Len(last.run) = Len(last.target) + 1
        /\ EndOf(Heap, last.run[Len(last.run)]) = EndOf(Heap, BaseEdge)
        /\ ClosedLoop(Heap, panelEdges)

\* C4: project translates the inserted shape rigidly by
\* base_edge.start - edges[0].start: every vertex of the copy is the vertex of
\* the input shape plus that vector.
C4_ProjectRigidTranslation ==
    ProjectDone =>
        LET d == VSub(StartOf(Heap, BaseEdge), StartOf(Heap, last.target[1]))
        IN \A i \in 1..Len(last.copy) :
               /\ StartOf(Heap, last.copy[i]) = VAdd(StartOf(Heap, last.target[i]), d)
               /\ EndOf(Heap, last.copy[i]) = VAdd(EndOf(Heap, last.target[i]), d)

\* C5: a successful cut_corner whose corner edges carried interfaces removes
\* every interface on the two removed edges, adds exactly one per edge of the
\* inserted run and keeps the others; with no interface on them the list is unchanged.
C5_CutCornerInterfaces ==
    CutDone =>
        IF \E i \in 1..Len(last.preIntf) : last.preIntf[i] \in {Edge1, Edge2}
        THEN /\ \A x \in {Edge1, Edge2} : Count(interfaces, x) = 0
             /\ \A x \in Range(last.run) : Count(interfaces, x) = 1
             /\ \A x \in Range(last.preIntf) \ {Edge1, Edge2} :
                    Count(interfaces, x) = Count(last.preIntf, x)
             /\ Range(interfaces) \subseteq
                    (Range(last.preIntf) \ {Edge1, Edge2}) \cup Range(last.run)
        ELSE interfaces = last.preIntf

\* a corner cut where two interfaces sat on a removed edge and one on a kept edge
C5_Witness ==
    /\ CutDone
    /\ \E x \in {Edge1, Edge2} : Count(last.preIntf, x) >= 2
    /\ \E x \in Range(last.preIntf) : x \notin {Edge1, Edge2}

\* C6: every interface of the panel references an edge that is in panel.edges.
C6_InterfacesReferenceLiveEdges ==
    \A i \in 1..Len(interfaces) : interfaces[i] \in Range(panelEdges)

\* C7: cut_corner ends with the error, and splices nothing, whenever the
\* translation fit reports non-convergence or the scale fit is run and reports it.
C7_NonConvergenceIsAnError ==
    (last.op = "cut_corner" /\
        (~last.out1.success \/ (last.ran2 /\ ~last.out2.success))) =>
        /\ last.status = "error"
        /\ panelEdges = last.preEdges
        /\ interfaces = last.preIntf

\* a cut_corner whose translation fit converged and whose scale fit did not
C7_Witness ==
    CutFailed /\ last.out1.success /\ last.ran2 /\ ~last.out2.success

\* the chord length of edge object e now, as the square of the norm
ChordSq(e) == DistSq(StartOf(Heap, e), EndOf(Heap, e))

\* C8: every comparison a == b of two edges gives true exactly when their chord
\* lengths are equal, and a comparison with a non-edge gives false.
C8_EqIffSameLength ==
    /\ last.op = "eq" => last.ret = RetBool(ChordSq(last.a) = ChordSq(last.b))
    /\ last.op = "eq_other" => last.ret = RetBool(FALSE)

\* C9: every length() call succeeds and returns the distance between the
\* edge's current end and start vertices.
C9_LengthReturnsCurrentDistance ==
    last.op = "length" => last.ret = <<"float", ChordSq(last.a)>>

\* C10: reversing a chained sequence (reverse the list, flip each edge) gives a
\* chained sequence through the same vertex positions in the opposite order,
\* reversing twice gives back the original positions; flip swaps start and end of
\* its edge and nothing else, and two flips restore the edge.
C10_ReverseAndFlip ==
    /\ (last.op = "reverse" /\ last.preChained) =>
           /\ Chained(Heap, seq)
           /\ VertsAlong(Heap, seq) = PyReverse(last.preVerts)
    /\ (last.op = "reverse" /\ last.prev.op = "reverse" /\ last.preChained) =>
           VertsAlong(Heap, seq) = last.prev.preVerts
    /\ last.op = "flip" =>
           /\ edge[last.a].start = last.preEdge[last.a].end
           /\ edge[last.a].end = last.preEdge[last.a].start
           /\ edge[last.a].length = last.preEdge[last.a].length
           /\ \A e \in 1..Len(edge) : e # last.a => edge[e] = last.preEdge[e]
    /\ (last.op = "flip" /\ last.prev.op = "flip" /\ last.prev.a = last.a) =>
           edge = last.prev.preEdge

\* a chained sequence of two edges reversed twice in a row
C10_Witness ==
    /\ last.op = "reverse" /\ last.prev.op = "reverse" /\ last.preChained
    /\ Len(seq) = 2

\* the target shape's edges inside the run the last cut_corner inserted: the
\* run without its two connectors
InnerRun == SubSeq(last.run, 2, Len(last.run) - 1)

\* the caller's target shape moved by d, in the direction it was spliced in
TargetMovedBy(d) ==
    LET t == [i \in 1..(Len(last.target) + 1) |->
                 VAdd(VertsAlong(Heap, last.target)[i], d)]
    IN IF last.reversed # last.swaped THEN PyReverse(t) ELSE t

\* C12: cut_corner runs the scale fit exactly when the absolute residual of the
\* converged translation fit exceeds 1e-3; with a residual of at most 1e-3 the
\* call succeeds whatever a scale fit would report, and the spliced shape is the
\* target shape translated by the fitted shift, no vertex rescaled.
C12_ScaleFitOnlyAboveTolerance ==
    (last.op = "cut_corner" /\ last.out1.success) =>
        /\ last.ran2 <=> (Abs(last.out1.fun) > Tol)
        /\ (Abs(last.out1.fun) > Tol /\ ~last.out2.success) => CutFailed
        /\ (Abs(last.out1.fun) <= Tol) =>
              /\ CutDone
              /\ VertsAlong(Heap, InnerRun) = TargetMovedBy(last.out1.x)

\* a cut whose translation fit left a residual of exactly the tolerance and
\* moved a two-edge shape by a shift that is not zero
C12_Witness ==
    /\ CutDone /\ last.out1.fun = Tol /\ last.out1.x # <<0, 0>>
    /\ ~last.ran2 /\ last.swaped /\ Len(last.target) = 2

\* ------------------------------------------------- edge sequence generators

\* a fraction of the edge, start_cut or end_cut
Frac(n, d) == [num |-> n, den |-> d]

\* c * v for a fraction c and a vector v whose coordinates c.den divides
FracMul(c, v) == <<(c.num * v[1]) \div c.den, (c.num * v[2]) \div c.den>>

\* the vertex list of side_with_cut: start, the cut vertices that are asked
\* for, end
SideVerts(start, end, start_cut, end_cut) ==
    <<start>>
    \o (IF start_cut.num > 0
        THEN <<VAdd(start, FracMul(start_cut, VSub(end, start)))>> ELSE <<>>)
    \o (IF end_cut.num > 0
        THEN <<VSub(end, FracMul(end_cut, VSub(end, start)))>> ELSE <<>>)
    \o <<end>>

\* the end cut measured from the start of the side
SideWithCutFromStart(h, start, end, start_cut, end_cut) ==
    ChainEdges(h, SideVerts(start, end, start_cut, Frac(0, 1))
                  \o (IF end_cut.num > 0
                      THEN <<VAdd(start, FracMul(end_cut, VSub(end, start)))>> ELSE <<>>)
                  \o <<end>>)

\* side_with_cut(start, end, start_cut, end_cut)
side_with_cut(h, start, end, start_cut, end_cut) ==
    ChainEdges(h, SideVerts(start, end, start_cut, end_cut))

\* ------------------------------------------- edge sequences: behaviours

\* how many vertices a caller hands to simple_loop at most
MaxVerts == 2

\* how many in-place writes (moves, scalings) follow the building of a sequence
MaxWrites == 2
MayWrite == calls < MaxWrites

\* the vertices handed to simple_loop
LoopPoints == {<<2, 0>>, <<2, 2>>, <<0, 0>>}
LoopVerts == UNION {[1..n -> LoopPoints] : n \in 1..MaxVerts}

\* the sides handed to side_with_cut: [start, end], and the cuts
Sides == {<<<<0, 0>>, <<4, 2>>>>, <<<<2, 2>>, <<2, -2>>>>}
Cuts == {Frac(-1, 2), Frac(0, 1), Frac(1, 2), Frac(1, 4)}
SidesFor(c1, c2) == {sd \in Sides : \A c \in {c1, c2} :
                        \A k \in 1..2 : (c.num * (sd[2][k] - sd[1][k])) % c.den = 0}

\* the scales handed to _scale_edges_from_start
Scales == {1, 2}

EmptyHeap == [vert |-> <<>>, edge |-> <<>>]

\* the record of the last call: the generator that built seq and its
\* arguments, whether a vertex was written since, and the last operation
Built(op, args) ==
    [op |-> op, built |-> op, args |-> args, moved |-> FALSE,
     preVerts |-> <<>>, scale |-> 0]

InitShape ==
    /\ vert = <<>>
    /\ edge = <<>>
    /\ seq = <<>>
    /\ panelEdges = <<>>
    /\ interfaces = <<>>
    /\ NoScript
    /\ calls = 0
    /\ last = Built("none", <<>>)

SimpleLoopCall ==
    /\ \E pts \in LoopVerts : \E r \in {simple_loop(EmptyHeap, pts)} :
          /\ vert' = r.h.vert
          /\ edge' = r.h.edge
          /\ seq' = r.seq
          /\ last' = Built("simple_loop", pts)
    /\ calls' = 0
    /\ UNCHANGED <<panelEdges, interfaces, dataset, gen, svg, comps>>

SideWithCutCall ==
    /\ \E c1 \in Cuts, c2 \in Cuts : \E sd \in SidesFor(c1, c2) :
       \E r \in {side_with_cut(EmptyHeap, sd[1], sd[2], c1, c2)} :
          /\ vert' = r.h.vert
          /\ edge' = r.h.edge
          /\ seq' = r.seq
          /\ last' = Built("side_with_cut", <<sd[1], sd[2], c1, c2>>)
    /\ calls' = 0
    /\ UNCHANGED <<panelEdges, interfaces, dataset, gen, svg, comps>>

\* the caller writes into one of the vertex lists: v[0] += d[0]; v[1] += d[1]
MoveShapeVertex ==
    /\ MayWrite
    /\ \E c \in 1..Len(vert), d \in Moves :
          /\ vert' = AddTo(Heap, c, d).vert
          /\ last' = [last EXCEPT !.op = "move", !.moved = TRUE]
    /\ calls' = calls + 1
    /\ UNCHANGED <<edge, seq, panelEdges, interfaces, dataset, gen, svg, comps>>

ScaleCall ==
    /\ MayWrite
    /\ seq # <<>>
    /\ \E scale \in Scales :
          /\ vert' = scale_edges_from_start(Heap, seq, scale).vert
          /\ last' = [last EXCEPT !.op = "scale", !.moved = TRUE,
                                  !.preVerts = VertsAlong(Heap, seq),
                                  !.scale = scale]
    /\ calls' = calls + 1
    /\ UNCHANGED <<edge, seq, panelEdges, interfaces, dataset, gen, svg, comps>>

NextShape == SimpleLoopCall \/ SideWithCutCall \/ MoveShapeVertex \/ ScaleCall

SpecShape == InitShape /\ [][NextShape]_vars

\* consecutive edges of s share the vertex object, not only its coordinates
ChainedByObject(h, s) ==
    \A i \in 1..(Len(s) - 1) : h.edge[s[i]].end = h.edge[s[i + 1]].start

\* C16: for every non-empty vertex list simple_loop returns len(verts) + 1
\* edges, the first starting at [0,0], each starting at the very vertex object
\* the previous one ends at, the last ending at the first edge's start object;
\* the edge vectors sum to zero, also after shared vertices are moved in place.
C16_SimpleLoopClosed ==
    (last.built = "simple_loop") =>
        /\ Len(seq) = Len(last.args) + 1
        /\ ChainedByObject(Heap, seq)
        /\ edge[seq[Len(seq)]].end = edge[seq[1]].start
        /\ ~last.moved =>
              /\ StartOf(Heap, seq[1]) = <<0, 0>>
              /\ \A i \in 1..Len(last.args) : EndOf(Heap, seq[i]) = last.args[i]
        /\ VecSum(Heap, seq) = <<0, 0>>

\* a loop of three edges after vertices of it were moved in place twice
C16_Witness ==
    /\ last.built = "simple_loop" /\ last.op = "move" /\ calls = 2
    /\ Len(seq) = 3 /\ StartOf(Heap, seq[1]) # <<0, 0>>

\* C19: _scale_edges_from_start keeps v_start and moves every end vertex v to
\* v_start + scale * (v - v_start), in x and in y; scale = 1 changes nothing.
C19_ScaleFromStart ==
    (last.op = "scale") =>
        \A i \in 1..Len(last.preVerts) :
            VertsAlong(Heap, seq)[i] =
                VAdd(last.preVerts[1],
                     VMul(VSub(last.preVerts[i], last.preVerts[1]), last.scale))

\* the vector d is the fraction c of end - start
IsFracOf(d, c, start, end) ==
    \A k \in 1..2 : c.den * d[k] = c.num * (end[k] - start[k])

\* how many cut vertices side_with_cut adds for the cut c
CutCount(c) == IF c.num > 0 THEN 1 ELSE 0

\* C20: side_with_cut returns 1 + [start_cut > 0] + [end_cut > 0] chained
\* edges from start to end, the extra vertices at start + start_cut*(end-start)
\* and end - end_cut*(end-start); the edge vectors sum to end - start.
C20_SideWithCut ==
    (last.built = "side_with_cut") =>
        LET start == last.args[1]
            end == last.args[2]
            sc == last.args[3]
            ec == last.args[4]
        IN /\ Len(seq) = 1 + CutCount(sc) + CutCount(ec)
           /\ ChainedByObject(Heap, seq)
           /\ ~last.moved =>
                 /\ StartOf(Heap, seq[1]) = start
                 /\ EndOf(Heap, seq[Len(seq)]) = end
                 /\ sc.num > 0 => IsFracOf(VSub(EndOf(Heap, seq[1]), start), sc, start, end)
                 /\ ec.num > 0 =>
                       IsFracOf(VSub(end, StartOf(Heap, seq[Len(seq)])), ec, start, end)
                 /\ VecSum(Heap, seq) = VSub(end, start)

\* a side cut at a quarter from its start and a half from its end: three edges
C20_Witness ==
    /\ last.built = "side_with_cut" /\ ~last.moved /\ Len(seq) = 3
    /\ last.args[3] = Frac(1, 4) /\ last.args[4] = Frac(1, 2)

\* ------------------------------------------------ design_params_reload.py

\* how many entries the dataset folder has at most
MaxEntries == 2

\* the sections of the dataset properties a failed datapoint is recorded in
Sections == {"stitching_error", "pattern_loading"}
NoSection == "None"

\* An entry of the dataset folder, its name left out: el_path.is_file(),
\* 'render' in el_path.name, and the answer of props.is_fail_section(el_name).
\* The name of an entry is its position in the listing.
EntryKinds ==
    {[is_file |-> TRUE, render |-> FALSE, is_fail |-> FALSE, section |-> NoSection],
     [is_file |-> FALSE, render |-> TRUE, is_fail |-> FALSE, section |-> NoSection],
     [is_file |-> FALSE, render |-> FALSE, is_fail |-> FALSE, section |-> NoSection]}
    \cup {[is_file |-> FALSE, render |-> r, is_fail |-> TRUE, section |-> sec] :
             r \in BOOLEAN, sec \in Sections}
Datasets == UNION {[1..n -> EntryKinds] : n \in 0..MaxEntries}

\* the condition read from left to right, `and` and `or` taken as they come
DroppedLeftToRight(e, filter_fails, only_fails, fail_types) ==
    ((filter_fails /\ e.is_fail) \/ only_fails)
    /\ (~e.is_fail \/ (IF fail_types # {} THEN e.section \notin fail_types ELSE FALSE))

\* filter_fails and is_fail or only_fails and (not is_fail or
\*     (section not in fail_types if fail_types else False))
Dropped(e, filter_fails, only_fails, fail_types) ==
    \/ filter_fails /\ e.is_fail
    \/ only_fails /\ (~e.is_fail \/ (IF fail_types # {} THEN e.section \notin fail_types
                                     ELSE FALSE))

\* the loop of filtered_subfolders from entry i on
RECURSIVE FilterFrom(_, _, _, _, _)
FilterFrom(entries, i, filter_fails, only_fails, fail_types) ==
    IF i > Len(entries) THEN <<>>
    ELSE (IF entries[i].is_file \/ entries[i].render
             \/ Dropped(entries[i], filter_fails, only_fails, fail_types)
          THEN <<>> ELSE <<i>>)
         \o FilterFrom(entries, i + 1, filter_fails, only_fails, fail_types)

\* filtered_subfolders(datapath, props, filter_fails, only_fails, fail_types)
filtered_subfolders(entries, filter_fails, only_fails, fail_types) ==
    FilterFrom(entries, 1, filter_fails, only_fails, fail_types)

\* names = filtered_subfolders(in_datapath, properties, only_fails=False,
\*                             fail_types=fail_types, verbose=verbose)
GenerateNames(entries, fail_types) ==
    filtered_subfolders(entries, FALSE, FALSE, fail_types)

\* what opening the design file, opening the body file and MetaGarment with
\* _save_sample may do for one datapoint
FileOutcomes == {"loaded", "FileNotFoundError"}
BuildOutcomes == {"saved", "Exception", "KeyboardInterrupt"}

\* one iteration of `for name in names` of generate, g.i names done before it
LoopBody(g, design, body, build) ==
    LET name == g.names[g.i + 1]
        next == [g EXCEPT !.i = g.i + 1]
    IN IF design = "FileNotFoundError"
       THEN [next EXCEPT !.skipped = Append(g.skipped, name)]
       ELSE IF g.default_body
       THEN IF build = "saved"
            THEN [next EXCEPT !.built = Append(g.built, name)]
            ELSE [next EXCEPT !.pc = "raised",
                              !.interrupted = (build = "KeyboardInterrupt")]
       ELSE IF body = "FileNotFoundError"
       THEN [next EXCEPT !.skipped = Append(g.skipped, name)]
       ELSE IF build = "saved"
       THEN [next EXCEPT !.built = Append(g.built, name)]
       ELSE IF build = "KeyboardInterrupt"
       THEN [next EXCEPT !.pc = "returned", !.interrupted = TRUE]
       ELSE [next EXCEPT !.failed = Append(g.failed, name)]

InitGen ==
    /\ NoKernel
    /\ dataset \in Datasets
    /\ gen = NoGen
    /\ svg = NoSvg
    /\ comps = NoComps

FilteredSubfoldersCall ==
    /\ gen.pc = "idle"
    /\ \E filter_fails \in BOOLEAN, only_fails \in BOOLEAN,
          fail_types \in SUBSET Sections :
          gen' = [NoGen EXCEPT !.pc = "listed", !.filter_fails = filter_fails,
                      !.only_fails = only_fails, !.fail_types = fail_types,
                      !.names = filtered_subfolders(dataset, filter_fails,
                                                    only_fails, fail_types)]
    /\ UNCHANGED <<kernelVars, dataset, svg, comps>>

GenerateStart ==
    /\ gen.pc = "idle"
    /\ \E default_body \in BOOLEAN, fail_types \in SUBSET Sections :
          gen' = [NoGen EXCEPT !.pc = "loop", !.default_body = default_body,
                      !.fail_types = fail_types,
                      !.names = GenerateNames(dataset, fail_types)]
    /\ UNCHANGED <<kernelVars, dataset, svg, comps>>

GenerateStep ==
    /\ gen.pc = "loop"
    /\ gen.i < Len(gen.names)
    /\ \E design \in FileOutcomes, body \in FileOutcomes, build \in BuildOutcomes :
          gen' = LoopBody(gen, design, body, build)
    /\ UNCHANGED <<kernelVars, dataset, svg, comps>>

\* return default_path, body_sample_path after the loop
GenerateReturn ==
    /\ gen.pc = "loop"
    /\ gen.i = Len(gen.names)
    /\ gen' = [gen EXCEPT !.pc = "returned"]
    /\ UNCHANGED <<kernelVars, dataset, svg, comps>>

NextGen == FilteredSubfoldersCall \/ GenerateStart \/ GenerateStep \/ GenerateReturn

SpecGen == InitGen /\ [][NextGen]_vars

\* generate has ended, by a return or by an exception
GenerateEnded == gen.pc \in {"returned", "raised"}

\* C14: a failure other than KeyboardInterrupt while one datapoint is built or
\* saved does not end generate: it processes every remaining name and returns
\* the output paths, on the default body and on per-datapoint bodies alike.
C14_FailureSkipsOneDatapoint ==
    (GenerateEnded /\ ~gen.interrupted) =>
        /\ gen.pc = "returned"
        /\ gen.i = Len(gen.names)

\* C15: with a non-empty fail_types generate rebuilds only datapoints recorded
\* as failed in one of the listed sections.
C15_OnlyListedFailuresRebuilt ==
    (gen.pc \in {"loop", "returned", "raised"} /\ gen.fail_types # {}) =>
        \A k \in 1..Len(gen.built) :
            /\ dataset[gen.built[k]].is_fail
            /\ dataset[gen.built[k]].section \in gen.fail_types

\* the entry is a datapoint folder: not a file, no 'render' in its name
IsDatapoint(e) == ~e.is_file /\ ~e.render

\* the entry passes the filter of the listing recorded in gen
PassesFilter(e) ==
    /\ ~(gen.filter_fails /\ e.is_fail)
    /\ ~(gen.only_fails /\ ~e.is_fail)
    /\ ~(gen.only_fails /\ gen.fail_types # {} /\ e.section \notin gen.fail_types)

\* C18: filtered_subfolders returns, in listing order, exactly the entries that
\* are not files, have no 'render' in their name and pass the filter: dropped
\* when filter_fails and failed; dropped when only_fails and not failed, or
\* failed in a section outside a non-empty fail_types.  With both flags false
\* it returns every datapoint folder, with both true nothing.
C18_FilteredSubfolders ==
    (gen.pc = "listed") =>
        /\ \A k \in 1..(Len(gen.names) - 1) : gen.names[k] < gen.names[k + 1]
        /\ Range(gen.names) =
              {i \in 1..Len(dataset) : IsDatapoint(dataset[i]) /\ PassesFilter(dataset[i])}
        /\ (~gen.filter_fails /\ ~gen.only_fails) =>
              Range(gen.names) = {i \in 1..Len(dataset) : IsDatapoint(dataset[i])}
        /\ (gen.filter_fails /\ gen.only_fails) => gen.names = <<>>

\* a listing of only the failures of one section that keeps the second of two
\* failed datapoints and drops the first, failed in another section
C18_Witness ==
    /\ gen.pc = "listed" /\ gen.only_fails /\ ~gen.filter_fails
    /\ gen.fail_types = {"pattern_loading"} /\ gen.names = <<2>>
    /\ IsDatapoint(dataset[1]) /\ dataset[1].section = "stitching_error"

\* -------------------------------------------------------------- svg_holes.py

\* how many paths are handed to split_half_svg_paths, and how many times a
\* path crosses the centre line, at most
MaxPaths == 2
MaxCrossings == 3

\* A path as split_half_svg_paths sees it: len(p.intersect(inter_segment)) and
\* the outcome of the test side_1.bbox()[2] > center_x.  The geometry is
\* svgpathtools' and is not modelled.
Paths == [crossings : 0..MaxCrossings, swap : BOOLEAN]
PathLists == UNION {[1..n -> Paths] : n \in 0..MaxPaths}

\* the path accepted when it crosses at least twice
CrossesTooFew(p) == p.crossings < 2

\* if len(intersect_t) != 2
CrossesWrong(p) == p.crossings # 2

\* the two pieces of path i: side_1 = p.cropped(from_T, to_T), side_2 the rest
Side1(i) == <<i, "side_1">>
Side2(i) == <<i, "side_2">>

\* the loop `for p in paths` from path i on, with the lists collected so far;
\* an exception leaves the function and its local lists behind
RECURSIVE SplitFrom(_, _, _, _)
SplitFrom(paths, i, left, right) ==
    IF i > Len(paths)
    THEN [pc |-> "returned", paths |-> paths, left |-> left, right |-> right]
    ELSE IF CrossesWrong(paths[i])
    THEN [pc |-> "ValueError", paths |-> paths, left |-> <<>>, right |-> <<>>]
    ELSE IF paths[i].swap
    THEN SplitFrom(paths, i + 1, Append(left, Side1(i)), Append(right, Side2(i)))
    ELSE SplitFrom(paths, i + 1, Append(left, Side2(i)), Append(right, Side1(i)))

\* split_half_svg_paths(paths): bboxes[:, 0] of np.array([]) is an IndexError
split_half_svg_paths(paths) ==
    IF paths = <<>>
    THEN [pc |-> "IndexError", paths |-> paths, left |-> <<>>, right |-> <<>>]
    ELSE SplitFrom(paths, 1, <<>>, <<>>)

InitSvg ==
    /\ NoKernel
    /\ dataset = <<>>
    /\ gen = NoGen
    /\ \E paths \in PathLists : svg = [NoSvg EXCEPT !.paths = paths]
    /\ comps = NoComps

SplitCall ==
    /\ svg.pc = "idle"
    /\ svg' = split_half_svg_paths(svg.paths)
    /\ UNCHANGED <<kernelVars, dataset, gen, comps>>

NextSvg == SplitCall

SpecSvg == InitSvg /\ [][NextSvg]_vars

\* what the claim says of a call that has ended
SplitOutcome ==
    /\ (\E i \in 1..Len(svg.paths) : svg.paths[i].crossings # 2) =>
          /\ svg.pc = "ValueError"
          /\ svg.left = <<>> /\ svg.right = <<>>
    /\ (\A i \in 1..Len(svg.paths) : svg.paths[i].crossings = 2) =>
          /\ svg.pc = "returned"
          /\ Len(svg.left) = Len(svg.paths) /\ Len(svg.right) = Len(svg.paths)

\* C13 as stated: split_half_svg_paths raises ValueError whenever a path of the
\* list crosses the centre line a number of times other than two, with no
\* left/right result; when every path crosses exactly twice it returns.
C13_SplitRaisesOrReturns == (svg.pc # "idle") => SplitOutcome

\* C13 for a list that is not empty: ValueError and no result when some path
\* does not cross exactly twice, a left and a right piece per path otherwise.
C13_SplitNonEmpty == (svg.pc # "idle" /\ svg.paths # <<>>) => SplitOutcome

\* the second of two paths crosses three times, after a first one that was
\* split
C13_Witness ==
    /\ svg.pc = "ValueError" /\ Len(svg.paths) = 2
    /\ svg.paths[1].crossings = 2 /\ svg.paths[2].crossings = 3

\* ------------------------------------------------------------- distribute_Y

\* how many copies are asked for at most
MaxCopies == 6

\* the degrees of a full turn: 360 / n_copies
FullTurn == 360

\* The placement of a component, as far as rotations about Oy change it: the
\* angle in degrees its rotation has about Oy on top of the orientation it was
\* built with, and the azimuth in degrees of its translation vector about Oy
\* (the height and the distance from the axis stay as they are).
Angles == {0, 30, 45, 180, 315}
Components ==
    [name : {"component"}, rotation : {0, 90}, translation : Angles]

\* the numbers of copies for which 360 / n_copies is a whole number of degrees
CopyCounts == {n \in 1..MaxCopies : FullTurn % n = 0}

\* R.from_euler('XYZ', [0, 360 / n_copies, 0], degrees=True), as its angle
DeltaRotation(n) == FullTurn \div n

\* delta_rotation.apply(translation)
Apply(delta, translation) == (translation + delta) % FullTurn

\* component.rotate_by(delta_rotation): the rotation composed with the delta
RotateBy(c, delta) == [c EXCEPT !.rotation = (c.rotation + delta) % FullTurn]

\* every copy made from the first component
RECURSIVE DistributeFromFirst(_, _, _, _)
DistributeFromFirst(objs, copies, i, n) ==
    IF i >= n - 1 THEN [objs |-> objs, copies |-> copies]
    ELSE LET c == RotateBy([objs[copies[1]] EXCEPT !.name = <<"panel", i>>],
                           DeltaRotation(n))
             moved == [c EXCEPT !.translation = Apply(DeltaRotation(n), c.translation)]
         IN DistributeFromFirst(Append(objs, moved), Append(copies, Len(objs) + 1),
                                i + 1, n)

\* the loop `for i in range(n_copies - 1)` from iteration i on: the new
\* component is a deep copy of copies[-1], a new object
RECURSIVE DistributeFrom(_, _, _, _)
DistributeFrom(objs, copies, i, n) ==
    IF i >= n - 1 THEN [objs |-> objs, copies |-> copies]
    ELSE LET c == RotateBy([objs[copies[Len(copies)]] EXCEPT !.name = <<"panel", i>>],
                           DeltaRotation(n))
             moved == [c EXCEPT !.translation = Apply(DeltaRotation(n), c.translation)]
         IN DistributeFrom(Append(objs, moved), Append(copies, Len(objs) + 1), i + 1, n)

\* distribute_Y(component, n_copies), component the object with id 1
distribute_Y(objs, n_copies) == DistributeFrom(objs, <<1>>, 0, n_copies)

InitDist ==
    /\ NoKernel
    /\ dataset = <<>>
    /\ gen = NoGen
    /\ svg = NoSvg
    /\ \E c \in Components, n \in CopyCounts :
          comps = [NoComps EXCEPT !.objs = <<c>>, !.given = c, !.n = n]

DistributeCall ==
    /\ comps.pc = "idle"
    /\ \E r \in {distribute_Y(comps.objs, comps.n)} :
          comps' = [comps EXCEPT !.pc = "returned", !.objs = r.objs,
                                 !.copies = r.copies]
    /\ UNCHANGED <<kernelVars, dataset, gen, svg>>

NextDist == DistributeCall

SpecDist == InitDist /\ [][NextDist]_vars

\* the k-th component of the returned list, k from 1
Copy(k) == comps.objs[comps.copies[k]]

\* C11: for every n >= 1 distribute_Y(component, n) returns n components, the
\* first the given one; the placement of each next one is that of the one
\* before it rotated by 360/n degrees about Oy, rotation and translation
\* alike, so the k-th copy is turned by k*360/n from the original.
C11_DistributeY ==
    (comps.pc = "returned") =>
        /\ Len(comps.copies) = comps.n
        /\ comps.copies[1] = 1 /\ Copy(1) = comps.given
        /\ \A j, k \in 1..comps.n : j # k => comps.copies[j] # comps.copies[k]
        /\ \A k \in 2..comps.n :
              /\ Copy(k).rotation =
                    (Copy(k - 1).rotation + DeltaRotation(comps.n)) % FullTurn
              /\ Copy(k).translation =
                    (Copy(k - 1).translation + DeltaRotation(comps.n)) % FullTurn
              /\ Copy(k).rotation =
                    (comps.given.rotation + (k - 1) * DeltaRotation(comps.n)) % FullTurn
              /\ Copy(k).translation =
                    (comps.given.translation + (k - 1) * DeltaRotation(comps.n)) % FullTurn

\* five copies of a component that was already turned, 72 degrees apart
C11_Witness ==
    /\ comps.pc = "returned" /\ comps.n = 5 /\ comps.given.rotation = 90
    /\ Copy(5).rotation = 18

\* ------------------------------------------------- cut_corner: frame effect

\* the edge objects of s and the vertices they reference are in heap h1 what
\* they were in heap h0: same references, same coordinates
Untouched(h0, h1, s) ==
    \A i \in 1..Len(s) :
        /\ h1.edge[s[i]] = h0.edge[s[i]]
        /\ StartOf(h1, s[i]) = StartOf(h0, s[i])
        /\ EndOf(h1, s[i]) = EndOf(h0, s[i])

\* C21: when cut_corner fails, on either fit, panel.edges holds the same edge
\* objects in the same order with the same vertex coordinates as before the
\* call, panel.interfaces is unchanged and the caller's target_shape edges are
\* not modified.
C21_FailedCutLeavesPanel ==
    CutFailed =>
        /\ panelEdges = last.preEdges
        /\ interfaces = last.preIntf
        /\ Untouched(last.preHeap, Heap, last.preEdges)
        /\ Untouched(last.preHeap, Heap, last.target)

\* a cut that failed on the scale fit, after the copy of the shape had been
\* reversed and moved by a shift that is not zero
C21_Witness ==
    /\ CutFailed /\ last.out1.success /\ last.out1.x # <<0, 0>>
    /\ ~last.out2.success /\ last.reversed /\ last.preIntf # <<>>

\* the edges of the panel other than the corner, before the last cut_corner,
\* in their order around the boundary from the successor of eid2 on
RestOfPanel ==
    [i \in 1..(Len(last.preEdges) - 2) |->
        PyGet(last.preEdges, (last.eid2 + i) % Len(last.preEdges))]

\* the lists a and b hold the same entries in the same cyclic order
SameCycle(a, b) ==
    /\ Len(a) = Len(b)
    /\ \E k \in 0..(Len(a) - 1) :
          \A i \in 1..Len(a) : a[i] = b[((i - 1 + k) % Len(a)) + 1]

\* C22: a successful cut_corner changes only the corner: every other panel
\* edge is the same object with the same endpoints, those edges keep their
\* cyclic order, the inserted run sits between the former predecessor of eid1
\* and the former successor of eid2, and the anchors (start of eid1, end of
\* eid2) are not moved.
C22_CutCornerFrame ==
    CutDone =>
        /\ SameCycle(panelEdges, last.run \o RestOfPanel)
        /\ Untouched(last.preHeap, Heap, RestOfPanel)
        /\ vert[last.preHeap.edge[Edge1].start] = StartOf(last.preHeap, Edge1)
        /\ vert[last.preHeap.edge[Edge2].end] = EndOf(last.preHeap, Edge2)

\* a wrap-around corner cut out of a panel of four edges, two of them kept
C22_Witness ==
    CutDone /\ Wrapped /\ Len(last.preEdges) = 4 /\ last.out1.x # <<0, 0>>

====
